---- MODULE Spec2Model ----
(***************************************************************************)
(* A model of the pqc-analyzer pass (analyzer/analyzer.go): pqcAnalyze     *)
(* walks the files of an analysis pass, reports quantum-vulnerable imports *)
(* and top-level calls of quantum-vulnerable functions through pass.Reportf *)
(* and returns an error when an import path literal cannot be unquoted.    *)
(*                                                                         *)
(* A Go string is the sequence of its bytes (numbers in 0..255), so that   *)
(* every literal of the language can be written: raw ones between          *)
(* backquotes, interpreted ones with escape sequences, bytes that are not  *)
(* UTF-8.  Str gives the Go string of a text in ASCII.  A syntax tree node *)
(* is a record tagged with its go/ast type in the field "kind"; a nil      *)
(* pointer is the record Nil.  A token.Pos is an integer, laid out in      *)
(* source order (see the section on positions).                            *)
(***************************************************************************)
EXTENDS Integers, Sequences, FiniteSets, TLC

VARIABLES files, pc, fi, ii, di, si, diags, err

vars == <<files, pc, fi, ii, di, si, diags, err>>

(***************************************************************************)
(* Bounds of the model.                                                    *)
(***************************************************************************)
MaxFiles == 2
MaxImports == 2
MaxDecls == 2
MaxStmts == 2

(***************************************************************************)
(* Go strings.                                                             *)
(***************************************************************************)
\* the characters of codes 32 to 95, and of codes 97 to 126
AsciiFromSpace == " !\"#$%&'()*+,-./0123456789:;<=>?@ABCDEFGHIJKLMNOPQRSTUVWXYZ[\\]^_"

AsciiFromLowerA == "abcdefghijklmnopqrstuvwxyz{|}~"

\* the byte of an ASCII character
ByteOf(ch) ==
    LET upper == {i \in 1..Len(AsciiFromSpace) : SubSeq(AsciiFromSpace, i, i) = ch}
        lower == {i \in 1..Len(AsciiFromLowerA) : SubSeq(AsciiFromLowerA, i, i) = ch}
    IN  CASE upper # {} -> 31 + (CHOOSE i \in upper : TRUE)
          [] lower # {} -> 96 + (CHOOSE i \in lower : TRUE)
          [] ch = "\t" -> 9
          [] ch = "\n" -> 10
          [] ch = "\f" -> 12
          [] ch = "\r" -> 13

\* the Go string of a text: its bytes
Str(text) ==
    LET bytes == [i \in 1..Len(text) |-> ByteOf(SubSeq(text, i, i))]
    IN  SubSeq(bytes, 1, Len(text))

DoubleQuote == 34
SingleQuote == 39
Backslash == 92
Backquote == 96
Newline == 10
CarriageReturn == 13

\* s[n:]
SliceFrom(s, n) == SubSeq(s, n + 1, Len(s))

(***************************************************************************)
(* Go library functions used by the analyzer.                              *)
(***************************************************************************)
\* strings.HasPrefix, as HasSuffix is when the wrong end is tested
HasPrefix(s, suffix) ==
    /\ Len(s) >= Len(suffix)
    /\ SubSeq(s, 1, Len(suffix)) = suffix

\* strings.HasSuffix
HasSuffix(s, suffix) ==
    /\ Len(s) >= Len(suffix)
    /\ SubSeq(s, Len(s) - Len(suffix) + 1, Len(s)) = suffix

\* slices.Contains
SlicesContains(list, x) == \E i \in 1..Len(list) : list[i] = x

\* the index slices.IndexFunc returns for the set of (1-based) positions of
\* the elements that satisfy the predicate: the first one, 0-based, or -1
FirstIndex(hits) ==
    IF hits = {} THEN -1 ELSE (CHOOSE h \in hits : \A g \in hits : h <= g) - 1

\* the index of the first byte c of s, 0-based, or -1
IndexByte(s, c) == FirstIndex({i \in 1..Len(s) : s[i] = c})

\* whether s has the byte c
ContainsByte(s, c) == \E i \in 1..Len(s) : s[i] = c

(***************************************************************************)
(* unicode/utf8.                                                           *)
(***************************************************************************)
RuneSelf == 128
RuneError == 65533
MaxRune == 1114111
SurrogateMin == 55296
SurrogateMax == 57343

InRange(b, lo, hi) == lo <= b /\ b <= hi

\* utf8.ValidRune
ValidRune(r) ==
    \/ 0 <= r /\ r < SurrogateMin
    \/ SurrogateMax < r /\ r <= MaxRune

\* utf8.DecodeRuneInString: the first rune of p and the number of bytes of its
\* encoding; RuneError with size 1 for an encoding that is not valid (a stray
\* continuation byte, an overlong or truncated sequence, a surrogate, a value
\* beyond MaxRune), RuneError with size 0 for the empty string
DecodeRune(p) ==
    IF Len(p) < 1 THEN [r |-> RuneError, size |-> 0]
    ELSE LET p0 == p[1]
             sz == CASE p0 < RuneSelf -> 1
                     [] InRange(p0, 194, 223) -> 2
                     [] InRange(p0, 224, 239) -> 3
                     [] InRange(p0, 240, 244) -> 4
                     [] OTHER -> 0
             \* the range accepted for the second byte
             lo == IF p0 = 224 THEN 160 ELSE IF p0 = 240 THEN 144 ELSE 128
             hi == IF p0 = 237 THEN 159 ELSE IF p0 = 244 THEN 143 ELSE 191
             invalid == [r |-> RuneError, size |-> 1]
         IN  IF sz = 1 THEN [r |-> p0, size |-> 1]
             ELSE IF sz = 0 THEN invalid
             ELSE IF Len(p) < sz THEN invalid
             ELSE IF ~InRange(p[2], lo, hi) THEN invalid
             ELSE IF sz = 2
                  THEN [r |-> (p0 % 32) * 64 + (p[2] % 64), size |-> 2]
             ELSE IF ~InRange(p[3], 128, 191) THEN invalid
             ELSE IF sz = 3
                  THEN [r |-> (p0 % 16) * 4096 + (p[2] % 64) * 64 + (p[3] % 64),
                        size |-> 3]
             ELSE IF ~InRange(p[4], 128, 191) THEN invalid
             ELSE [r |-> (p0 % 8) * 262144 + (p[2] % 64) * 4096
                           + (p[3] % 64) * 64 + (p[4] % 64),
                   size |-> 4]

\* utf8.ValidString
RECURSIVE ValidString(_)
ValidString(s) ==
    IF \A i \in 1..Len(s) : s[i] < RuneSelf THEN TRUE
    ELSE LET d == DecodeRune(s)
         IN  IF d.r = RuneError /\ d.size = 1 THEN FALSE
             ELSE ValidString(SliceFrom(s, d.size))

\* utf8.AppendRune to the empty string: the UTF-8 encoding of a rune, that
\* of RuneError for a rune that is not valid
EncodeRune(r) ==
    IF ~ValidRune(r) THEN <<239, 191, 189>>
    ELSE IF r < 128 THEN <<r>>
    ELSE IF r < 2048 THEN <<192 + (r \div 64), 128 + (r % 64)>>
    ELSE IF r < 65536
         THEN <<224 + (r \div 4096), 128 + ((r \div 64) % 64), 128 + (r % 64)>>
    ELSE <<240 + (r \div 262144), 128 + ((r \div 4096) % 64),
           128 + ((r \div 64) % 64), 128 + (r % 64)>>

(***************************************************************************)
(* strings.Split.                                                          *)
(***************************************************************************)
\* the UTF-8 sequences of s, one string each (an invalid byte by itself)
RECURSIVE Explode(_)
Explode(s) ==
    IF Len(s) = 0 THEN <<>>
    ELSE LET size == DecodeRune(s).size
         IN  <<SubSeq(s, 1, size)>> \o Explode(SliceFrom(s, size))

\* strings.Split: the substrings between the separators, in order (a string
\* without separator is its only element)
RECURSIVE Split(_, _)
Split(s, sep) ==
    IF Len(sep) = 0 THEN Explode(s)
    ELSE LET hits == {i \in 1..(Len(s) - Len(sep) + 1) :
                        SubSeq(s, i, i + Len(sep) - 1) = sep}
         IN  IF hits = {}
             THEN <<s>>
             ELSE LET i == CHOOSE h \in hits : \A g \in hits : h <= g
                  IN  <<SubSeq(s, 1, i - 1)>>
                          \o Split(SliceFrom(s, i + Len(sep) - 1), sep)

(***************************************************************************)
(* strconv.Unquote.                                                        *)
(***************************************************************************)
ErrSyntax == Str("invalid syntax")
NoError == Str("<nil>")

\* v<<4 | x for a rune v (32 bits, signed) and a hexadecimal digit x: the
\* four high bits of v are lost and bit 27 becomes the sign
ShiftHex(v, x) ==
    LET low == v % 268435456
    IN  IF low >= 134217728 THEN (low - 268435456) * 16 + x ELSE low * 16 + x

\* unhex: the value of a hexadecimal digit
unhex(b) ==
    CASE InRange(b, 48, 57) -> [v |-> b - 48, ok |-> TRUE]
      [] InRange(b, 97, 102) -> [v |-> b - 97 + 10, ok |-> TRUE]
      [] InRange(b, 65, 70) -> [v |-> b - 65 + 10, ok |-> TRUE]
      [] OTHER -> [v |-> 0, ok |-> FALSE]

\* the loop of UnquoteChar over the n hexadecimal digits s starts with:
\* v = v<<4 | x for each of them
RECURSIVE HexValue(_, _, _)
HexValue(s, n, v) ==
    IF n = 0 THEN [v |-> v, ok |-> TRUE]
    ELSE LET x == unhex(s[1])
         IN  IF ~x.ok THEN [v |-> 0, ok |-> FALSE]
             ELSE HexValue(SliceFrom(s, 1), n - 1, ShiftHex(v, x.v))

CharFailed == [value |-> 0, multibyte |-> FALSE, tail |-> <<>>, err |-> ErrSyntax]

Char(value, multibyte, tail) ==
    [value |-> value, multibyte |-> multibyte, tail |-> tail, err |-> NoError]

\* strconv.UnquoteChar: the first character or byte of the escaped string
\* s, whether it is to be written as a multibyte UTF-8 sequence, and the
\* rest of s
UnquoteChar(s, quote) ==
    IF Len(s) = 0 THEN CharFailed
    ELSE IF s[1] = quote /\ quote \in {SingleQuote, DoubleQuote} THEN CharFailed
    ELSE IF s[1] >= RuneSelf
         THEN LET d == DecodeRune(s) IN Char(d.r, TRUE, SliceFrom(s, d.size))
    ELSE IF s[1] # Backslash THEN Char(s[1], FALSE, SliceFrom(s, 1))
    ELSE IF Len(s) <= 1 THEN CharFailed
    ELSE LET c == s[2]
             t == SliceFrom(s, 2)
         IN  CASE c = 97 -> Char(7, FALSE, t)     \* \a
               [] c = 98 -> Char(8, FALSE, t)     \* \b
               [] c = 102 -> Char(12, FALSE, t)   \* \f
               [] c = 110 -> Char(10, FALSE, t)   \* \n
               [] c = 114 -> Char(13, FALSE, t)   \* \r
               [] c = 116 -> Char(9, FALSE, t)    \* \t
               [] c = 118 -> Char(11, FALSE, t)   \* \v
               [] c \in {120, 117, 85} ->         \* \x, \u, \U
                    LET n == IF c = 120 THEN 2 ELSE IF c = 117 THEN 4 ELSE 8
                    IN  IF Len(t) < n THEN CharFailed
                        ELSE LET h == HexValue(t, n, 0)
                             IN  IF ~h.ok THEN CharFailed
                                 ELSE IF c = 120
                                      THEN Char(h.v, FALSE, SliceFrom(t, n))
                                 ELSE IF ~ValidRune(h.v) THEN CharFailed
                                 ELSE Char(h.v, TRUE, SliceFrom(t, n))
               [] InRange(c, 48, 55) ->           \* three octal digits
                    IF Len(t) < 2 THEN CharFailed
                    ELSE IF ~InRange(t[1], 48, 55) THEN CharFailed
                    ELSE IF ~InRange(t[2], 48, 55) THEN CharFailed
                    ELSE LET v == (c - 48) * 64 + (t[1] - 48) * 8 + (t[2] - 48)
                         IN  IF v > 255 THEN CharFailed
                             ELSE Char(v, FALSE, SliceFrom(t, 2))
               [] c = Backslash -> Char(Backslash, FALSE, t)
               [] c \in {SingleQuote, DoubleQuote} ->
                    IF c # quote THEN CharFailed ELSE Char(c, FALSE, t)
               [] OTHER -> CharFailed

Failed == [val |-> <<>>, err |-> ErrSyntax]

\* the result of Unquote for the value out of a literal followed by rem:
\* nothing may follow the closing quote
Unquoted(out, rem) ==
    IF Len(rem) > 0 THEN Failed ELSE [val |-> out, err |-> NoError]

\* the end of a quoted literal: the closing quote is where the characters stop
CloseQuote(in, quote, buf) ==
    IF Len(in) = 0 THEN Failed
    ELSE IF in[1] # quote THEN Failed
    ELSE Unquoted(buf, SliceFrom(in, 1))

\* the loop over the characters of a quoted literal with escape sequences,
\* in being what follows the characters decoded into buf; UnquoteNext is the
\* body of the loop, c being what UnquoteChar finds at the start of in
RECURSIVE UnquoteLoop(_, _, _)
RECURSIVE UnquoteNext(_, _, _, _)
UnquoteNext(in, quote, buf, c) ==
    IF in[1] = Newline THEN Failed
    ELSE IF c.err # NoError THEN Failed
    ELSE LET buf1 == buf \o (IF c.value < RuneSelf \/ ~c.multibyte
                             THEN <<c.value % 256>>
                             ELSE EncodeRune(c.value))
         IN  IF quote = SingleQuote
             THEN CloseQuote(c.tail, quote, buf1)
             ELSE UnquoteLoop(c.tail, quote, buf1)

UnquoteLoop(in, quote, buf) ==
    IF Len(in) = 0 THEN CloseQuote(in, quote, buf)
    ELSE IF in[1] = quote THEN CloseQuote(in, quote, buf)
    ELSE UnquoteNext(in, quote, buf, UnquoteChar(in, quote))

\* strconv.Unquote: the value of a Go literal.  A raw string literal, between
\* backquotes, is its content without the carriage returns; a string literal
\* between double quotes and a one-character literal between single quotes
\* are their content when it has no backslash (and is UTF-8), and else are
\* decoded character by character; anything else is a syntax error.
Unquote(s) ==
    IF Len(s) < 2 THEN Failed
    ELSE LET quote == s[1]
             idx == IndexByte(SliceFrom(s, 1), quote)
         IN  IF idx < 0 THEN Failed
             ELSE LET end == idx + 2
                      body == SubSeq(s, 2, end - 1)
                      rem == SliceFrom(s, end)
                  IN  CASE quote = Backquote ->
                             Unquoted(SelectSeq(body, LAMBDA b : b # CarriageReturn), rem)
                        [] quote \in {DoubleQuote, SingleQuote} ->
                             IF /\ ~ContainsByte(body, Backslash)
                                /\ ~ContainsByte(body, Newline)
                                /\ IF quote = DoubleQuote
                                   THEN ValidString(body)
                                   ELSE LET d == DecodeRune(body)
                                        IN  /\ 1 + d.size + 1 = end
                                            /\ (d.r # RuneError \/ d.size # 1)
                             THEN Unquoted(body, rem)
                             ELSE UnquoteLoop(SliceFrom(s, 1), quote, <<>>)
                        [] OTHER -> Failed

(***************************************************************************)
(* The taxonomy tables.                                                    *)
(***************************************************************************)
ecImportPaths == <<Str("crypto/ecdh"), Str("crypto/ecdsa"), Str("crypto/ed25519"), Str("crypto/elliptic")>>

ifImportPaths == <<Str("crypto/rsa"), Str("crypto/dsa")>>

keyExchangePaths == <<Str("crypto/ecdh")>>

QvFunction(fn, pkg) == [FnName |-> fn, Package |-> pkg]

fnIdentifiers == <<
    QvFunction(Str("DecryptOAEP"), Str("crypto/rsa")),
    QvFunction(Str("DecryptPKCS1v15"), Str("crypto/rsa")),
    QvFunction(Str("DecryptPKCS1v15SessionKey"), Str("crypto/rsa")),
    QvFunction(Str("EncryptOAEP"), Str("crypto/rsa")),
    QvFunction(Str("EncryptPKCS1v15"), Str("crypto/rsa")),
    QvFunction(Str("SignPKCS1v15"), Str("crypto/rsa")),
    QvFunction(Str("SignPSS"), Str("crypto/rsa")),
    QvFunction(Str("VerifyPKCS1v15"), Str("crypto/rsa")),
    QvFunction(Str("VerifyPSS"), Str("crypto/rsa")),
    QvFunction(Str("SignASN1"), Str("crypto/ecdsa")),
    QvFunction(Str("VerifyASN1"), Str("crypto/ecdsa")),
    QvFunction(Str("NewTripleDESCipher"), Str("crypto/des")),
    QvFunction(Str("MarshalPKCS1PrivateKey"), Str("crypto/x509")),
    QvFunction(Str("MarshalECPrivateKey"), Str("crypto/x509")),
    QvFunction(Str("ParsePKCS1PrivateKey"), Str("crypto/x509")),
    QvFunction(Str("ParseECPrivateKey"), Str("crypto/x509")),
    QvFunction(Str("Verify"), Str("crypto/dsa")),
    QvFunction(Str("Sign"), Str("crypto/dsa")),
    QvFunction(Str("GenerateKey"), Str("crypto/dsa")) >>

(***************************************************************************)
(* Syntax tree nodes (go/ast), as the analyzer reads them.                 *)
(***************************************************************************)
Nil == [kind |-> "nil"]

Ident(name) == [kind |-> "Ident", Name |-> name]

ImportSpec(name, value) ==
    [kind |-> "ImportSpec", Name |-> name, Path |-> [kind |-> "BasicLit", Value |-> value]]

SelectorExpr(x, sel) == [kind |-> "SelectorExpr", X |-> x, Sel |-> sel]

CallExpr(fun, args) == [kind |-> "CallExpr", Fun |-> fun, Args |-> args]

BinaryExpr(x, y) == [kind |-> "BinaryExpr", X |-> x, Y |-> y]

AssignStmt(rhs) == [kind |-> "AssignStmt", Rhs |-> rhs]

ExprStmt(x) == [kind |-> "ExprStmt", X |-> x]

IfStmt(body) == [kind |-> "IfStmt", Body |-> body]

BlockStmt(list) == [kind |-> "BlockStmt", List |-> list]

FuncDecl(body) == [kind |-> "FuncDecl", Body |-> body]

GenDecl == [kind |-> "GenDecl"]

File(name, imports, decls) ==
    [kind |-> "File", Name |-> name, Imports |-> imports, Decls |-> decls]

(***************************************************************************)
(* Positions.  A token.Pos grows with the source offset: the files of a    *)
(* pass occupy disjoint ranges in pass order, the imports of a file come   *)
(* before its other declarations, an import's alias before its path, the   *)
(* statements of a body in order, the right-hand sides of an assignment    *)
(* from left to right.                                                     *)
(***************************************************************************)
FileBase(f) == f * 10000

FileOfPos(p) == p \div 10000

ImportNamePos(f, k) == FileBase(f) + 10 * k

ImportPathPos(f, k) == FileBase(f) + 10 * k + 2

\* ast.ImportSpec.Pos: the alias' position when there is one, else the path's
ImportPos(f, k, importSpec) ==
    IF importSpec.Name # Nil THEN ImportNamePos(f, k) ELSE ImportPathPos(f, k)

\* the position of statement s of the body of declaration d of file f
StmtPos(f, d, s) == FileBase(f) + 1000 * d + 100 * s

\* the position of the r-th right-hand side of the assignment at stmtPos
RhsPos(stmtPos, r) == stmtPos + 10 * r

(***************************************************************************)
(* The analyzer.                                                           *)
(***************************************************************************)
\* the texts of the formats of the diagnostics and of the error
EllipticCurveText == Str(" uses quantum-vulnerable elliptic curve cryptography")

IntegerFactorizationText ==
    Str(" uses quantum-vulnerable integer factorization cryptography")

FunctionText == Str("function \"")

ImplementsText == Str("\" implements quantum-vulnerable cryptography")

FailedText == Str("failed to analyze package ")

ColonText == Str(": ")

\* the separator of the segments of a path, the separator of a qualified
\* name, and the suffix of the name of a test package
SlashText == Str("/")

DotText == Str(".")

TestSuffix == Str("_test")

\* Reportf as it is when the diagnostic is put before those reported so far
ReportfFirst(d, pos, message) == <<[Pos |-> pos, Message |-> message]>> \o d

\* pass.Reportf: one more diagnostic, after those reported so far
Reportf(d, pos, message) == Append(d, [Pos |-> pos, Message |-> message])

\* list[len(list)-1]
Last(list) == list[Len(list)]

\* getLocalImportName as it is when the explicit alias is not looked at
getDefaultImportName(importSpec) ==
    LET importPath == Unquote(importSpec.Path.Value).val
        importPathComponents == Split(importPath, SlashText)
    IN  Last(importPathComponents)

getLocalImportName(importSpec) ==
    IF importSpec.Name # Nil
    THEN importSpec.Name.Name
    ELSE LET importPath == Unquote(importSpec.Path.Value).val
             importPathComponents == Split(importPath, SlashText)
         IN  Last(importPathComponents)

\* ImportIndex as it is when the last import with the name is taken
LastImportIndex(imports, localImportName) ==
    LET hits == {i \in 1..Len(imports) :
                   getLocalImportName(imports[i]) = localImportName}
    IN  IF hits = {} THEN -1 ELSE (CHOOSE h \in hits : \A g \in hits : h >= g) - 1

\* slices.IndexFunc(imports, getLocalImportName(importSpec) == localImportName)
ImportIndex(imports, localImportName) ==
    FirstIndex({i \in 1..Len(imports) :
                  getLocalImportName(imports[i]) = localImportName})

\* slices.IndexFunc(fnIdentifiers, FnName == functionName && importPath == Package)
FnIndex(importPath, functionName) ==
    FirstIndex({i \in 1..Len(fnIdentifiers) :
                  /\ fnIdentifiers[i].FnName = functionName
                  /\ importPath = fnIdentifiers[i].Package})

NotVulnerable == [fnName |-> <<>>, vulnerable |-> FALSE]

\* the end of vulnerableFunction: idx is the index in fnIdentifiers of the
\* entry of the function functionName of the package importPath
vulnerableEntry(importName, functionName, importPath, idx) ==
    IF idx = -1 THEN NotVulnerable
    ELSE [fnName |-> importName \o DotText \o functionName,
          vulnerable |-> /\ fnIdentifiers[idx + 1].FnName = functionName
                         /\ fnIdentifiers[idx + 1].Package = importPath]

\* vulnerableFunction once the import is found: u is what Unquote gives for
\* the path literal of importSpec
vulnerableImport(importSpec, u, fn) ==
    IF u.err # NoError THEN NotVulnerable
    ELSE IF fn.kind # "Ident" THEN NotVulnerable
    ELSE vulnerableEntry(getLocalImportName(importSpec), fn.Name, u.val,
                         FnIndex(u.val, fn.Name))

\* vulnerableFunction from the index idx of the import in imports
vulnerableAt(imports, idx, fn) ==
    IF idx = -1 THEN NotVulnerable
    ELSE vulnerableImport(imports[idx + 1], Unquote(imports[idx + 1].Path.Value), fn)

vulnerableFunction(imports, localImportName, fn) ==
    vulnerableAt(imports, ImportIndex(imports, localImportName), fn)

\* the import check of one import whose path literal decoded to importPath
CheckImportPath(d, pos, value, importPath) ==
    LET d1 == IF SlicesContains(ecImportPaths, importPath)
              THEN Reportf(d, pos, value \o EllipticCurveText)
              ELSE d
    IN  IF SlicesContains(ifImportPaths, importPath)
        THEN Reportf(d1, pos, value \o IntegerFactorizationText)
        ELSE d1

\* the report of a call for which vulnerableFunction gave r
ReportCall(d, pos, r) ==
    IF r.vulnerable
    THEN Reportf(d, pos, FunctionText \o r.fnName \o ImplementsText)
    ELSE d

\* the check of one expression: a call whose callee is a selector on an
\* identifier is looked up; the diagnostic is positioned at the identifier,
\* with which such a call expression starts
CheckCall(d, imports, expr, pos) ==
    IF /\ expr.kind = "CallExpr"
       /\ expr.Fun.kind = "SelectorExpr"
       /\ expr.Fun.X.kind = "Ident"
    THEN ReportCall(d, pos, vulnerableFunction(imports, expr.Fun.X.Name, expr.Fun.Sel))
    ELSE d

\* the loop over the right-hand sides of an assignment, from the r-th on
RECURSIVE ScanRhs(_, _, _, _, _)
ScanRhs(d, imports, rhs, r, stmtPos) ==
    IF r > Len(rhs) THEN d
    ELSE ScanRhs(CheckCall(d, imports, rhs[r], RhsPos(stmtPos, r)),
                 imports, rhs, r + 1, stmtPos)

\* ScanStmt as it is when the scan also goes into the body of a conditional
ScanStmtDeep(d, imports, stmt, stmtPos) ==
    CASE stmt.kind = "AssignStmt" -> ScanRhs(d, imports, stmt.Rhs, 1, stmtPos)
      [] stmt.kind = "ExprStmt" -> CheckCall(d, imports, stmt.X, stmtPos)
      [] stmt.kind = "IfStmt" ->
            IF stmt.Body.List # <<>> /\ stmt.Body.List[1].kind = "ExprStmt"
            THEN CheckCall(d, imports, stmt.Body.List[1].X, stmtPos + 1)
            ELSE d
      [] OTHER -> d

\* the type switch on one statement of a function body
ScanStmt(d, imports, stmt, stmtPos) ==
    CASE stmt.kind = "AssignStmt" -> ScanRhs(d, imports, stmt.Rhs, 1, stmtPos)
      [] stmt.kind = "ExprStmt" -> CheckCall(d, imports, stmt.X, stmtPos)
      [] OTHER -> d

IsTestFile(file) == file.Name # Nil /\ HasSuffix(file.Name.Name, TestSuffix)

Errorf(value, msg) == FailedText \o value \o ColonText \o msg

(***************************************************************************)
(* The inputs: the files of a pass (pass.Files).                           *)
(***************************************************************************)
SeqsUpTo(S, n) == UNION {[1..k -> S] : k \in 0..n}

\* import declarations: listed under two categories, listed under one and
\* exporting listed functions, aliased, aliased to the default name of
\* another import, single-segment and unlisted, with a raw path literal,
\* with an escape sequence in the path literal, with an unterminated path
\* literal, and with a path literal ending in a backslash
ImportEcdh == ImportSpec(Nil, Str("\"crypto/ecdh\""))
ImportRsa == ImportSpec(Nil, Str("\"crypto/rsa\""))
ImportEcdsaAsC == ImportSpec(Ident(Str("c")), Str("\"crypto/ecdsa\""))
ImportX509AsRsa == ImportSpec(Ident(Str("rsa")), Str("\"crypto/x509\""))
ImportFmt == ImportSpec(Nil, Str("\"fmt\""))
ImportRsaRaw == ImportSpec(Nil, <<Backquote>> \o Str("crypto/rsa") \o <<Backquote>>)
ImportRsaEscaped == ImportSpec(Nil, Str("\"crypto\\x2frsa\""))
ImportMalformed == ImportSpec(Nil, Str("\"crypto/rsa"))
ImportBadEscape == ImportSpec(Nil, Str("\"crypto/rsa\\\""))

ImportPool ==
    { ImportEcdh, ImportRsa, ImportEcdsaAsC, ImportX509AsRsa, ImportFmt,
      ImportRsaRaw, ImportRsaEscaped, ImportMalformed, ImportBadEscape }

CallImportPool == {ImportRsa, ImportEcdsaAsC, ImportX509AsRsa}

\* the call qualifier.member()
Call(qualifier, member) ==
    CallExpr(SelectorExpr(Ident(Str(qualifier)), Ident(Str(member))), <<>>)

\* statements: expression statements and assignments of qualified calls,
\* and the shapes the scan does not look into
StmtPool ==
    { ExprStmt(Call("rsa", "SignPSS")),
      ExprStmt(Call("c", "SignASN1")),
      ExprStmt(Call("c", "SignPSS")),
      ExprStmt(Call("v", "SignPSS")),
      ExprStmt(Call("rsa", "ParseECPrivateKey")),
      AssignStmt(<<Call("c", "SignASN1"), Call("rsa", "SignPSS")>>),
      AssignStmt(<<Ident(Str("v")), BinaryExpr(Call("rsa", "SignPSS"), Ident(Str("v")))>>),
      IfStmt(BlockStmt(<<ExprStmt(Call("rsa", "SignPSS"))>>)),
      ExprStmt(CallExpr(Ident(Str("f")), <<Call("rsa", "SignPSS")>>)),
      ExprStmt(CallExpr(SelectorExpr(SelectorExpr(Ident(Str("v")), Ident(Str("rsa"))),
                                     Ident(Str("SignPSS"))), <<>>)) }

DeclPool ==
    { GenDecl,
      FuncDecl(Nil),
      FuncDecl(BlockStmt(<<ExprStmt(Call("rsa", "SignPSS"))>>)),
      FuncDecl(BlockStmt(<<AssignStmt(<<Call("c", "SignASN1")>>)>>)) }

MainPkg == Ident(Str("main"))
TestPkg == Ident(Str("main_test"))

\* one file, its import list varied
ImportInputs ==
    {<<File(name, imports, <<>>)>> :
        name \in {MainPkg, TestPkg}, imports \in SeqsUpTo(ImportPool, MaxImports)}

\* one file, its import table and the body of its one function varied
CallInputs ==
    {<<File(MainPkg, imports, <<FuncDecl(BlockStmt(body))>>)>> :
        imports \in SeqsUpTo(CallImportPool, MaxImports),
        body \in SeqsUpTo(StmtPool, MaxStmts)}

\* one file, its declaration list and the form of a path literal varied
DeclInputs ==
    {<<File(MainPkg, <<rsa, ImportEcdsaAsC>>, decls)>> :
        rsa \in {ImportRsa, ImportRsaRaw, ImportRsaEscaped},
        decls \in SeqsUpTo(DeclPool, MaxDecls)}

\* several files: test and non-test packages, with a vulnerable import, a
\* vulnerable import followed by a malformed one, and a vulnerable call
FilePool ==
    {File(name, imports, decls) :
        name \in {MainPkg, TestPkg},
        imports \in {<<ImportRsa>>, <<ImportRsa, ImportMalformed>>},
        decls \in {<<>>, <<FuncDecl(BlockStmt(<<ExprStmt(Call("rsa", "SignPSS"))>>))>>}}

FileInputs == SeqsUpTo(FilePool, MaxFiles)

Inputs == ImportInputs \cup CallInputs \cup DeclInputs \cup FileInputs

(***************************************************************************)
(* The pass: pqcAnalyze, one step per loop iteration.                      *)
(***************************************************************************)
Init ==
    /\ files \in Inputs
    /\ pc = "files"
    /\ fi = 1
    /\ ii = 0
    /\ di = 0
    /\ si = 0
    /\ diags = <<>>
    /\ err = NoError

file == files[fi]

\* a file of a test package is passed over
SkipTestFile ==
    /\ pc = "files"
    /\ fi <= Len(files)
    /\ IsTestFile(file)
    /\ fi' = fi + 1
    /\ UNCHANGED <<files, pc, ii, di, si, diags, err>>

BeginFile ==
    /\ pc = "files"
    /\ fi <= Len(files)
    /\ ~IsTestFile(file)
    /\ pc' = "imports"
    /\ ii' = 1
    /\ UNCHANGED <<files, fi, di, si, diags, err>>

\* an import whose path literal decodes: checked against the import lists
CheckImport ==
    /\ pc = "imports"
    /\ ii <= Len(file.Imports)
    /\ LET currImport == file.Imports[ii]
           u == Unquote(currImport.Path.Value)
       IN  /\ u.err = NoError
           /\ diags' = CheckImportPath(diags, ImportPos(fi, ii, currImport),
                                       currImport.Path.Value, u.val)
    /\ ii' = ii + 1
    /\ UNCHANGED <<files, pc, fi, di, si, err>>

\* ImportError as it is when an import that does not decode is passed over
ImportErrorIgnored ==
    /\ pc = "imports"
    /\ ii <= Len(file.Imports)
    /\ Unquote(file.Imports[ii].Path.Value).err # NoError
    /\ ii' = ii + 1
    /\ UNCHANGED <<files, pc, fi, di, si, diags, err>>

\* an import whose path literal does not decode: the pass returns the error
ImportError ==
    /\ pc = "imports"
    /\ ii <= Len(file.Imports)
    /\ LET currImport == file.Imports[ii]
           u == Unquote(currImport.Path.Value)
       IN  /\ u.err # NoError
           /\ err' = Errorf(currImport.Path.Value, u.err)
    /\ pc' = "done"
    /\ UNCHANGED <<files, fi, ii, di, si, diags>>

EndImports ==
    /\ pc = "imports"
    /\ ii > Len(file.Imports)
    /\ pc' = "decls"
    /\ ii' = 0
    /\ di' = 1
    /\ UNCHANGED <<files, fi, si, diags, err>>

\* a declaration that is not a function, or a function without a body
SkipDecl ==
    /\ pc = "decls"
    /\ di <= Len(file.Decls)
    /\ LET decl == file.Decls[di]
       IN  IF decl.kind = "FuncDecl" THEN decl.Body = Nil ELSE TRUE
    /\ di' = di + 1
    /\ UNCHANGED <<files, pc, fi, ii, si, diags, err>>

BeginBody ==
    /\ pc = "decls"
    /\ di <= Len(file.Decls)
    /\ LET decl == file.Decls[di]
       IN  decl.kind = "FuncDecl" /\ decl.Body # Nil
    /\ pc' = "stmts"
    /\ si' = 1
    /\ UNCHANGED <<files, fi, ii, di, diags, err>>

\* one statement of the body of the current function
ScanStatement ==
    /\ pc = "stmts"
    /\ si <= Len(file.Decls[di].Body.List)
    /\ diags' = ScanStmt(diags, file.Imports, file.Decls[di].Body.List[si],
                         StmtPos(fi, di, si))
    /\ si' = si + 1
    /\ UNCHANGED <<files, pc, fi, ii, di, err>>

EndBody ==
    /\ pc = "stmts"
    /\ si > Len(file.Decls[di].Body.List)
    /\ pc' = "decls"
    /\ si' = 0
    /\ di' = di + 1
    /\ UNCHANGED <<files, fi, ii, diags, err>>

EndDecls ==
    /\ pc = "decls"
    /\ di > Len(file.Decls)
    /\ pc' = "files"
    /\ di' = 0
    /\ fi' = fi + 1
    /\ UNCHANGED <<files, ii, si, diags, err>>

\* every file visited: the pass returns without error
Return ==
    /\ pc = "files"
    /\ fi > Len(files)
    /\ pc' = "done"
    /\ UNCHANGED <<files, fi, ii, di, si, diags, err>>

Next ==
    \/ SkipTestFile
    \/ BeginFile
    \/ CheckImport
    \/ ImportError
    \/ EndImports
    \/ SkipDecl
    \/ BeginBody
    \/ ScanStatement
    \/ EndBody
    \/ EndDecls
    \/ Return

Spec == Init /\ [][Next]_vars

(***************************************************************************)
(* The analysis of one file as a function of the file: what the pass       *)
(* reports, and the error it returns, for a pass of this file alone, the   *)
(* file standing at place f of the position space.                         *)
(***************************************************************************)
RECURSIVE CheckImports(_, _, _, _)
CheckImports(d, imports, f, k) ==
    IF k > Len(imports) THEN [diags |-> d, err |-> NoError]
    ELSE LET u == Unquote(imports[k].Path.Value)
         IN  IF u.err # NoError
             THEN [diags |-> d, err |-> Errorf(imports[k].Path.Value, u.err)]
             ELSE CheckImports(
                      CheckImportPath(d, ImportPos(f, k, imports[k]),
                                      imports[k].Path.Value, u.val),
                      imports, f, k + 1)

RECURSIVE ScanBody(_, _, _, _, _, _)
ScanBody(d, imports, list, f, dd, s) ==
    IF s > Len(list) THEN d
    ELSE ScanBody(ScanStmt(d, imports, list[s], StmtPos(f, dd, s)),
                  imports, list, f, dd, s + 1)

RECURSIVE ScanDecls(_, _, _, _, _)
ScanDecls(d, imports, decls, f, dd) ==
    IF dd > Len(decls) THEN d
    ELSE LET decl == decls[dd]
             skipped == IF decl.kind = "FuncDecl" THEN decl.Body = Nil ELSE TRUE
         IN  ScanDecls(IF skipped THEN d
                       ELSE ScanBody(d, imports, decl.Body.List, f, dd, 1),
                       imports, decls, f, dd + 1)

AnalyzeFile(aFile, f) ==
    IF IsTestFile(aFile) THEN [diags |-> <<>>, err |-> NoError]
    ELSE LET r == CheckImports(<<>>, aFile.Imports, f, 1)
         IN  IF r.err # NoError THEN r
             ELSE [diags |-> ScanDecls(r.diags, aFile.Imports, aFile.Decls, f, 1),
                   err |-> NoError]

(***************************************************************************)
(* Vocabulary of the properties, stated on the syntax tree and on the      *)
(* diagnostics, independently of the analyzer's own operators.             *)
(***************************************************************************)
FileIds == 1..Len(files)

DiagsOfFile(f) == SelectSeq(diags, LAMBDA d : FileOfPos(d.Pos) = f)

CountAt(p) == Cardinality({i \in 1..Len(diags) : diags[i].Pos = p})

\* a diagnostic position inside a declaration (not in the import list)
IsCallPos(p) == p % 10000 >= 1000

\* the package name ends with "_test"
IsTestPackage(aFile) ==
    /\ aFile.Name # Nil
    /\ \E n \in 0..Len(aFile.Name.Name) :
           aFile.Name.Name = SubSeq(aFile.Name.Name, 1, n) \o TestSuffix

\* a path literal that can be decoded, and the module path it decodes to
Decodable(value) == Unquote(value).err = NoError

Decoded(value) == Unquote(value).val

\* the last '/'-separated segment of a path
LastSegment(path) ==
    LET n == Len(path)
        start == CHOOSE i \in 1..(n + 1) :
                     /\ \A j \in i..n : <<path[j]>> # SlashText
                     /\ IF i = 1 THEN TRUE ELSE <<path[i - 1]>> = SlashText
    IN  SubSeq(path, start, n)

\* the local alias of an import: the explicit alias, else the last segment
LocalAlias(importSpec) ==
    IF importSpec.Name # Nil THEN importSpec.Name.Name
    ELSE LET u == Unquote(importSpec.Path.Value)
         IN  IF u.err = NoError THEN LastSegment(u.val) ELSE <<>>

\* the (1-based) place of the first import with this local alias, 0 if none
Resolve(imports, name) ==
    LET hits == {k \in 1..Len(imports) : LocalAlias(imports[k]) = name}
    IN  IF hits = {} THEN 0 ELSE CHOOSE h \in hits : \A g \in hits : h <= g

IsFnEntry(path, name) ==
    \E i \in 1..Len(fnIdentifiers) :
        fnIdentifiers[i].Package = path /\ fnIdentifiers[i].FnName = name

\* the categories a module path is listed under
Categories(path) ==
    {c \in {"elliptic-curve", "integer-factorization", "key-exchange"} :
        SlicesContains(CASE c = "elliptic-curve" -> ecImportPaths
                         [] c = "integer-factorization" -> ifImportPaths
                         [] c = "key-exchange" -> keyExchangePaths, path)}

\* the top-level expression slots of a file: <<d, s, r>> is the r-th
\* right-hand side of the assignment, or with r = 0 the expression of the
\* expression statement, that is statement s of the body of declaration d
SlotsOfStmt(stmt, d, s) ==
    CASE stmt.kind = "AssignStmt" -> {<<d, s, r>> : r \in 1..Len(stmt.Rhs)}
      [] stmt.kind = "ExprStmt" -> {<<d, s, 0>>}
      [] OTHER -> {}

SlotsOfDecl(decl, d) ==
    IF decl.kind = "FuncDecl" /\ decl.Body # Nil
    THEN UNION {SlotsOfStmt(decl.Body.List[s], d, s) : s \in 1..Len(decl.Body.List)}
    ELSE {}

Slots(aFile) == UNION {SlotsOfDecl(aFile.Decls[d], d) : d \in 1..Len(aFile.Decls)}

ExprAt(aFile, slot) ==
    LET stmt == aFile.Decls[slot[1]].Body.List[slot[2]]
    IN  IF slot[3] = 0 THEN stmt.X ELSE stmt.Rhs[slot[3]]

SlotPos(f, slot) == RhsPos(StmtPos(f, slot[1], slot[2]), slot[3])

\* a call reference: the call qualifier.member(...), both simple identifiers
IsCallRef(e) ==
    /\ e.kind = "CallExpr"
    /\ e.Fun.kind = "SelectorExpr"
    /\ e.Fun.X.kind = "Ident"
    /\ e.Fun.Sel.kind = "Ident"

CallRefs(aFile) == {slot \in Slots(aFile) : IsCallRef(ExprAt(aFile, slot))}

Qualifier(aFile, slot) == ExprAt(aFile, slot).Fun.X.Name

Member(aFile, slot) == ExprAt(aFile, slot).Fun.Sel.Name

\* the call reference's qualifier resolves to a module of which its member
\* is a vulnerable function entry
Matches(aFile, slot) ==
    LET k == Resolve(aFile.Imports, Qualifier(aFile, slot))
        u == Unquote(aFile.Imports[k].Path.Value)
    IN  /\ k # 0
        /\ u.err = NoError
        /\ IsFnEntry(u.val, Member(aFile, slot))

CallMessage(qualifier, member) ==
    FunctionText \o qualifier \o DotText \o member \o ImplementsText

\* the import check has passed import k of file f
ImportChecked(f, k) ==
    /\ ~IsTestPackage(files[f])
    /\ IF f = fi
       THEN IF pc \in {"imports", "done"} THEN k < ii ELSE pc \in {"decls", "stmts"}
       ELSE f < fi

\* the call check has passed the statement of this slot of file f
SlotScanned(f, slot) ==
    /\ ~IsTestPackage(files[f])
    /\ IF f = fi
       THEN /\ pc \in {"decls", "stmts"}
            /\ IF slot[1] = di THEN pc = "stmts" /\ slot[2] < si ELSE slot[1] < di
       ELSE f < fi

\* the pass has gone through the whole of file f
FileAnalyzed(f) == ~IsTestPackage(files[f]) /\ f < fi

(***************************************************************************)
(* The properties.                                                         *)
(***************************************************************************)

\* C1: every import the import check has passed has exactly one diagnostic
\* per category its decoded module path is listed under (elliptic-curve,
\* integer-factorization, key-exchange), each at the import's position, and
\* none when the path is listed under no category; "crypto/ecdh", listed
\* under two categories, has two diagnostics at the same position.
ImportReportedPerCategory ==
    \A f \in FileIds : \A k \in 1..Len(files[f].Imports) :
        ImportChecked(f, k) =>
            CountAt(ImportPos(f, k, files[f].Imports[k]))
                = Cardinality(Categories(Decoded(files[f].Imports[k].Path.Value)))

\* C2: when an import path literal of a file cannot be decoded the pass has
\* stopped with an error and no diagnostic at all has been reported for that
\* file, not even for the vulnerable imports before the malformed one.
NoDiagnosticsOfFailedFile ==
    err # NoError =>
        /\ pc = "done"
        /\ \A i \in 1..Len(diags) : FileOfPos(diags[i].Pos) # fi

\* C6: when the pass has ended, the diagnostics reported for each file are
\* those of the analysis of that file alone, whatever the other files of
\* the pass are and whether or not one of them failed.
FilesAnalyzedIndependently ==
    pc = "done" =>
        \A f \in FileIds : DiagsOfFile(f) = AnalyzeFile(files[f], f).diags

\* C7: no deduplication and no aggregation: the number of diagnostics of an
\* analyzed file is the number of (import declaration, listed category)
\* matches plus the number of matching call references.
ImportMatches(aFile) ==
    {<<k, c>> \in (1..Len(aFile.Imports))
                    \X {"elliptic-curve", "integer-factorization", "key-exchange"} :
        /\ Decodable(aFile.Imports[k].Path.Value)
        /\ c \in Categories(Decoded(aFile.Imports[k].Path.Value))}

CallMatches(aFile) == {slot \in CallRefs(aFile) : Matches(aFile, slot)}

OneDiagnosticPerMatch ==
    \A f \in FileIds :
        FileAnalyzed(f) =>
            Len(DiagsOfFile(f))
                = Cardinality(ImportMatches(files[f])) + Cardinality(CallMatches(files[f]))

\* C4: the qualifier of a call reference the call check has passed is
\* resolved to the first import of the file whose local alias (explicit, else
\* the last segment of the path) equals it: the call has a diagnostic exactly
\* when its member is a vulnerable function entry of that import's module;
\* when no import has that local alias the call has no diagnostic, whatever
\* its member, and no error arises.
QualifierResolvedToFirstImport ==
    \A f \in FileIds : \A slot \in CallRefs(files[f]) :
        SlotScanned(f, slot) =>
            LET imports == files[f].Imports
                hits == {k \in 1..Len(imports) :
                           LocalAlias(imports[k]) = Qualifier(files[f], slot)}
                first == CHOOSE h \in hits : \A g \in hits : h <= g
            IN  /\ f = fi => err = NoError
                /\ IF hits = {}
                   THEN CountAt(SlotPos(f, slot)) = 0
                   ELSE CountAt(SlotPos(f, slot))
                          = IF IsFnEntry(Decoded(imports[first].Path.Value),
                                         Member(files[f], slot))
                            THEN 1 ELSE 0

RsaParseECPrivateKeyMessage == CallMessage(Str("rsa"), Str("ParseECPrivateKey"))

RsaSignPSSMessage == CallMessage(Str("rsa"), Str("SignPSS"))

CSignASN1Message == CallMessage(Str("c"), Str("SignASN1"))

\* two imports share the local alias "rsa", the first one of crypto/x509: the
\* call rsa.ParseECPrivateKey is reported and a call through "v", which no
\* import has as alias, is not
QualifierResolvedWitness ==
    /\ pc = "done"
    /\ err = NoError
    /\ Len(files) = 1
    /\ files[1].Imports = <<ImportX509AsRsa, ImportRsa>>
    /\ \E i \in 1..Len(diags) :
           diags[i].Message = RsaParseECPrivateKeyMessage
    /\ \E slot \in CallRefs(files[1]) :
           /\ ExprAt(files[1], slot) = Call("v", "SignPSS")
           /\ CountAt(SlotPos(1, slot)) = 0

\* C5: the diagnostics of one file are reported in file order: positions
\* grow with the place in the file (imports, then declarations in order,
\* their statements in order, the right-hand sides of an assignment in
\* order), so of two diagnostics of a file the later reported is not at an
\* earlier position.
DiagnosticsInFileOrder ==
    \A i, j \in 1..Len(diags) :
        (i < j /\ FileOfPos(diags[i].Pos) = FileOfPos(diags[j].Pos))
            => diags[i].Pos <= diags[j].Pos

\* import diagnostics, two diagnostics of one assignment and a diagnostic of
\* a later statement, in one file
DiagnosticsInFileOrderWitness ==
    /\ pc = "done"
    /\ \E i \in 1..Len(diags) : ~IsCallPos(diags[i].Pos)
    /\ \E i, j, k \in 1..Len(diags) :
           /\ IsCallPos(diags[i].Pos)
           /\ diags[i].Pos # diags[j].Pos
           /\ diags[i].Pos \div 100 = diags[j].Pos \div 100
           /\ diags[k].Pos \div 100 > diags[i].Pos \div 100

\* C8: the call check is a single-level scan: every diagnostic inside a
\* declaration is at a call reference that is itself a right-hand side of a
\* top-level assignment, or the expression of a top-level expression
\* statement, of a function body; calls nested in a conditional or in a
\* composite expression, and calls with another callee shape, have none.
OnlyTopLevelCallsReported ==
    \A i \in 1..Len(diags) :
        /\ FileOfPos(diags[i].Pos) \in FileIds
        /\ IsCallPos(diags[i].Pos) =>
               \E slot \in CallRefs(files[FileOfPos(diags[i].Pos)]) :
                   SlotPos(FileOfPos(diags[i].Pos), slot) = diags[i].Pos

\* a conditional whose body calls rsa.SignPSS, with crypto/rsa imported, has
\* been passed without a diagnostic, while the same call at top level in the
\* same body is reported
OnlyTopLevelCallsWitness ==
    /\ pc = "done"
    /\ Len(files) = 1
    /\ files[1].Imports = <<ImportRsa>>
    /\ files[1].Decls = <<FuncDecl(BlockStmt(
           <<IfStmt(BlockStmt(<<ExprStmt(Call("rsa", "SignPSS"))>>)),
             ExprStmt(Call("rsa", "SignPSS"))>>))>>
    /\ \A i \in 1..Len(diags) : diags[i].Pos \div 100 # StmtPos(1, 1, 1) \div 100
    /\ CountAt(StmtPos(1, 1, 2)) = 1

\* C10: a file whose package name ends with "_test" is skipped: no
\* diagnostic is reported for it, whatever it imports or calls, and the
\* error of the pass, if any, does not come from it.
TestFilesSkipped ==
    \A f \in FileIds :
        IsTestPackage(files[f]) =>
            /\ \A i \in 1..Len(diags) : FileOfPos(diags[i].Pos) # f
            /\ err # NoError => fi # f

\* the pass has ended without error and with the diagnostics of its second
\* file, its first file being a test file with a vulnerable import, a
\* malformed import literal and a vulnerable call
TestFilesSkippedWitness ==
    /\ pc = "done"
    /\ err = NoError
    /\ Len(files) = 2
    /\ IsTestPackage(files[1])
    /\ files[1].Imports = <<ImportRsa, ImportMalformed>>
    /\ files[1].Decls # <<>>
    /\ ~IsTestPackage(files[2])
    /\ diags # <<>>

\* C9 as stated: the pass ends in an error if and only if some import path
\* literal of a supplied file cannot be decoded.
ErrorIffMalformedImport ==
    pc = "done" =>
        (err # NoError <=>
            \E f \in FileIds : \E k \in 1..Len(files[f].Imports) :
                ~Decodable(files[f].Imports[k].Path.Value))

\* C9, amended: the pass ends in an error if and only if some import path
\* literal of a supplied file whose package name does not end with "_test"
\* cannot be decoded, and the error is that of such a literal; an import
\* listed under no category, a declaration that is not a function or has no
\* body, and a top-level expression that is not a matching call reference
\* (another callee shape, an unresolved qualifier, a pair absent from the
\* function entries) have no diagnostic and raise no error, and the scan
\* goes on: a pass ended without error has reported every matching call
\* reference of every file that is not a test file.
ErrorIffMalformedImportOutsideTests ==
    /\ pc = "done" =>
           (err # NoError <=>
               \E f \in FileIds : \E k \in 1..Len(files[f].Imports) :
                   /\ ~IsTestPackage(files[f])
                   /\ ~Decodable(files[f].Imports[k].Path.Value))
    /\ err # NoError =>
           /\ pc = "done"
           /\ ~IsTestPackage(files[fi])
           /\ ~Decodable(files[fi].Imports[ii].Path.Value)
    /\ \A f \in FileIds :
           /\ \A k \in 1..Len(files[f].Imports) :
                  (/\ ImportChecked(f, k)
                   /\ Categories(Decoded(files[f].Imports[k].Path.Value)) = {})
                      => CountAt(ImportPos(f, k, files[f].Imports[k])) = 0
           /\ \A d \in 1..Len(files[f].Decls) :
                  SlotsOfDecl(files[f].Decls[d], d) = {} =>
                      \A i \in 1..Len(diags) :
                          diags[i].Pos \div 1000 # StmtPos(f, d, 0) \div 1000
           /\ \A slot \in Slots(files[f]) :
                  (/\ SlotScanned(f, slot)
                   /\ ~(IsCallRef(ExprAt(files[f], slot)) /\ Matches(files[f], slot)))
                      => CountAt(SlotPos(f, slot)) = 0
           /\ (pc = "done" /\ err = NoError /\ ~IsTestPackage(files[f])) =>
                  \A slot \in CallMatches(files[f]) : CountAt(SlotPos(f, slot)) = 1

MalformedError == Errorf(ImportMalformed.Path.Value, ErrSyntax)

\* the pass has ended in the error of the malformed literal of its second
\* file, after a test file with the same malformed literal
ErrorIffMalformedImportWitness ==
    /\ pc = "done"
    /\ err = MalformedError
    /\ Len(files) = 2
    /\ IsTestPackage(files[1])
    /\ files[1].Imports = <<ImportRsa, ImportMalformed>>
    /\ fi = 2

(***************************************************************************)
(* Renaming an alias: every import whose local alias is x is given the     *)
(* explicit alias y, and every qualifier x becomes y.                      *)
(***************************************************************************)
RECURSIVE RenameExpr(_, _, _)
RenameExpr(e, x, y) ==
    CASE e.kind = "SelectorExpr" ->
            SelectorExpr(IF e.X.kind = "Ident"
                         THEN IF e.X.Name = x THEN Ident(y) ELSE e.X
                         ELSE RenameExpr(e.X, x, y),
                         e.Sel)
      [] e.kind = "CallExpr" ->
            CallExpr(RenameExpr(e.Fun, x, y),
                     [i \in 1..Len(e.Args) |-> RenameExpr(e.Args[i], x, y)])
      [] e.kind = "BinaryExpr" ->
            BinaryExpr(RenameExpr(e.X, x, y), RenameExpr(e.Y, x, y))
      [] OTHER -> e

RECURSIVE RenameStmt(_, _, _)
RenameStmt(stmt, x, y) ==
    CASE stmt.kind = "AssignStmt" ->
            AssignStmt([i \in 1..Len(stmt.Rhs) |-> RenameExpr(stmt.Rhs[i], x, y)])
      [] stmt.kind = "ExprStmt" -> ExprStmt(RenameExpr(stmt.X, x, y))
      [] stmt.kind = "IfStmt" ->
            IfStmt(BlockStmt([i \in 1..Len(stmt.Body.List) |->
                                 RenameStmt(stmt.Body.List[i], x, y)]))
      [] OTHER -> stmt

RenameDecl(decl, x, y) ==
    IF decl.kind = "FuncDecl" /\ decl.Body # Nil
    THEN FuncDecl(BlockStmt([i \in 1..Len(decl.Body.List) |->
                                RenameStmt(decl.Body.List[i], x, y)]))
    ELSE decl

RenameImport(importSpec, x, y) ==
    IF LocalAlias(importSpec) = x
    THEN ImportSpec(Ident(y), importSpec.Path.Value)
    ELSE importSpec

RenameFile(aFile, x, y) ==
    File(aFile.Name,
         [k \in 1..Len(aFile.Imports) |-> RenameImport(aFile.Imports[k], x, y)],
         [d \in 1..Len(aFile.Decls) |-> RenameDecl(aFile.Decls[d], x, y)])

\* the identifiers of a file: the local aliases of its imports and the
\* names its statements use
RECURSIVE NamesOfExpr(_)
NamesOfExpr(e) ==
    CASE e.kind = "Ident" -> {e.Name}
      [] e.kind = "SelectorExpr" -> NamesOfExpr(e.X) \cup {e.Sel.Name}
      [] e.kind = "CallExpr" ->
            NamesOfExpr(e.Fun) \cup UNION {NamesOfExpr(e.Args[i]) : i \in 1..Len(e.Args)}
      [] e.kind = "BinaryExpr" -> NamesOfExpr(e.X) \cup NamesOfExpr(e.Y)
      [] OTHER -> {}

RECURSIVE NamesOfStmt(_)
NamesOfStmt(stmt) ==
    CASE stmt.kind = "AssignStmt" ->
            UNION {NamesOfExpr(stmt.Rhs[i]) : i \in 1..Len(stmt.Rhs)}
      [] stmt.kind = "ExprStmt" -> NamesOfExpr(stmt.X)
      [] stmt.kind = "IfStmt" ->
            UNION {NamesOfStmt(stmt.Body.List[i]) : i \in 1..Len(stmt.Body.List)}
      [] OTHER -> {}

NamesOfDecl(decl) ==
    IF decl.kind = "FuncDecl" /\ decl.Body # Nil
    THEN UNION {NamesOfStmt(decl.Body.List[i]) : i \in 1..Len(decl.Body.List)}
    ELSE {}

NamesOfFile(aFile) ==
    {LocalAlias(aFile.Imports[k]) : k \in 1..Len(aFile.Imports)}
        \cup UNION {NamesOfDecl(aFile.Decls[d]) : d \in 1..Len(aFile.Decls)}

AliasNames == {Str("y"), Str("v"), Str("c"), Str("rsa")}

CallDiags(d) == SelectSeq(d, LAMBDA x : IsCallPos(x.Pos))

\* the call reference of file f at a position
SlotAt(f, pos) == CHOOSE slot \in CallRefs(files[f]) : SlotPos(f, slot) = pos

\* C3 as stated: a top-level call x.Foo(...) whose qualifier x is the local
\* alias of an import of module M, (M, Foo) being a vulnerable function
\* entry, has exactly one diagnostic, at the qualifier, naming "x.Foo".
AliasedCallReported ==
    pc = "done" =>
        \A f \in FileIds : \A slot \in CallRefs(files[f]) :
            (\E k \in 1..Len(files[f].Imports) :
                /\ LocalAlias(files[f].Imports[k]) = Qualifier(files[f], slot)
                /\ Decodable(files[f].Imports[k].Path.Value)
                /\ IsFnEntry(Decoded(files[f].Imports[k].Path.Value),
                             Member(files[f], slot)))
            => /\ CountAt(SlotPos(f, slot)) = 1
               /\ \E i \in 1..Len(diags) :
                      diags[i] = [Pos |-> SlotPos(f, slot),
                                  Message |-> CallMessage(Qualifier(files[f], slot),
                                                          Member(files[f], slot))]

\* C3, amended: a top-level call x.Foo(...) that the call check has passed
\* (its file is not a test file and the pass has not ended in an error
\* before it), the first import with local alias x being of module M and
\* (M, Foo) a vulnerable function entry, has exactly one diagnostic, at the
\* qualifier, naming "x.Foo"; and for a file the pass has gone through,
\* renaming an alias x to a name y the file does not use leaves the
\* positions of the call diagnostics as they are and changes only the
\* qualifier text of those of the calls through x.
ResolvedCallReported ==
    /\ \A f \in FileIds : \A slot \in CallRefs(files[f]) :
           (SlotScanned(f, slot) /\ Matches(files[f], slot))
           => /\ CountAt(SlotPos(f, slot)) = 1
              /\ \E i \in 1..Len(diags) :
                     diags[i] = [Pos |-> SlotPos(f, slot),
                                 Message |-> CallMessage(Qualifier(files[f], slot),
                                                         Member(files[f], slot))]
    /\ pc = "done" =>
           \A f \in FileIds : FileAnalyzed(f) =>
               LET calls == CallDiags(DiagsOfFile(f))
                   slots == [i \in 1..Len(calls) |-> SlotAt(f, calls[i].Pos)]
                   fresh == AliasNames \ NamesOfFile(files[f])
               IN  \A k \in 1..Len(files[f].Imports) : \A y \in fresh :
                       LET x == LocalAlias(files[f].Imports[k])
                           renamed == AnalyzeFile(RenameFile(files[f], x, y), f)
                       IN  /\ renamed.err = NoError
                           /\ CallDiags(renamed.diags)
                                = [i \in 1..Len(calls) |->
                                     [Pos |-> calls[i].Pos,
                                      Message |->
                                        IF Qualifier(files[f], slots[i]) = x
                                        THEN CallMessage(y, Member(files[f], slots[i]))
                                        ELSE calls[i].Message]]

\* crypto/ecdsa is imported as c and the top-level call c.SignASN1 has its
\* diagnostic, in a file with a second reported call through another alias
ResolvedCallWitness ==
    /\ pc = "done"
    /\ Len(files) = 1
    /\ files[1].Imports = <<ImportRsa, ImportEcdsaAsC>>
    /\ \E slot \in CallRefs(files[1]) :
           /\ ExprAt(files[1], slot) = Call("c", "SignASN1")
           /\ diags[Len(diags)] = [Pos |-> SlotPos(1, slot), Message |-> CSignASN1Message]
    /\ \E i \in 1..Len(diags) : diags[i].Message = RsaSignPSSMessage

====
